---- MODULE Spec2Model ----
(***************************************************************************)
(* Model of streamlit_resume_analyzer2.py: the text utilities              *)
(* (extract_text, extract_skills, compute_match_score, ats_check,          *)
(* section_check, career_level, keyword_density) and the Streamlit script  *)
(* with its Analyze button handler.                                        *)
(*                                                                         *)
(* A Python str is a sequence of one-character strings; a character        *)
(* outside ASCII, the double quote and the backtick are written by their   *)
(* code point ("U+2605", "U+0022", "U+0060").                              *)
(***************************************************************************)
EXTENDS Integers, Sequences, FiniteSets, TLC

(***************************************************************************)
(* Bounds of the model.                                                    *)
(***************************************************************************)
\* Pages (PDF), paragraphs (Word) or lines (plain text) of a document.
MaxUnits == 2
\* Temporary files the file system is let to hold before Word uploads stop.
MaxTempFiles == 2
\* Resolution of a score: ScoreScale steps per point of the 0..100 scale.
ScoreScale == 100

(***************************************************************************)
(* Python str operations.                                                  *)
(***************************************************************************)
\* The printable ASCII characters in code point order, from U+0020.
Printable == <<" ", "!", "U+0022", "#", "$", "%", "&", "'", "(", ")", "*", "+", ",", "-", ".", "/",
        "0", "1", "2", "3", "4", "5", "6", "7", "8", "9", ":", ";", "<", "=", ">", "?", "@", "A",
        "B", "C", "D", "E", "F", "G", "H", "I", "J", "K", "L", "M", "N", "O", "P", "Q", "R", "S",
        "T", "U", "V", "W", "X", "Y", "Z", "[", "\\", "]", "^", "_", "U+0060", "a", "b", "c", "d",
        "e", "f", "g", "h", "i", "j", "k", "l", "m", "n", "o", "p", "q", "r", "s", "t", "u", "v",
        "w", "x", "y", "z", "{", "|", "}", "~">>

\* ord(c) of a printable ASCII character.
ord(c) == 31 + (CHOOSE i \in 1..Len(Printable) : Printable[i] = c)

UpperCase == <<"A", "B", "C", "D", "E", "F", "G", "H", "I", "J", "K", "L", "M", "N", "O", "P", "Q",
        "R", "S", "T", "U", "V", "W", "X", "Y", "Z">>
LowerCase == <<"a", "b", "c", "d", "e", "f", "g", "h", "i", "j", "k", "l", "m", "n", "o", "p", "q",
        "r", "s", "t", "u", "v", "w", "x", "y", "z">>
Digits == <<"0", "1", "2", "3", "4", "5", "6", "7", "8", "9">>

\* str.lower() on the characters of the model.
ToLower ==
    [c \in {UpperCase[i] : i \in 1..26} |->
        LowerCase[CHOOSE i \in 1..26 : UpperCase[i] = c]]

\* The characters \w matches, among the characters of the model.
WordChars ==
    {UpperCase[i] : i \in 1..26} \cup {LowerCase[i] : i \in 1..26}
    \cup {Digits[i] : i \in 1..10} \cup {"_"}

IsWordChar(c) == c \in WordChars

LowerChar(c) == IF c \in DOMAIN ToLower THEN ToLower[c] ELSE c

\* str.lower()
lower(s) == [i \in 1..Len(s) |-> LowerChar(s[i])]

\* sub in s
Contains(s, sub) ==
    \E i \in 0..(Len(s) - Len(sub)) : \A k \in 1..Len(sub) : s[i + k] = sub[k]

\* s.count(sub) from position from (1-based): non-overlapping occurrences,
\* scanned left to right.
RECURSIVE CountFrom(_, _, _)
CountFrom(s, sub, from) ==
    IF from + Len(sub) - 1 > Len(s) THEN 0
    ELSE IF SubSeq(s, from, from + Len(sub) - 1) = sub
         THEN 1 + CountFrom(s, sub, from + (IF Len(sub) = 0 THEN 1 ELSE Len(sub)))
         ELSE CountFrom(s, sub, from + 1)

\* s.endswith(suffix)
endswith(s, suffix) ==
    /\ Len(s) >= Len(suffix)
    /\ SubSeq(s, Len(s) - Len(suffix) + 1, Len(s)) = suffix

\* sep.join(parts)
RECURSIVE join(_, _)
join(sep, parts) ==
    IF Len(parts) = 0 THEN << >>
    ELSE IF Len(parts) = 1 THEN parts[1]
    ELSE parts[1] \o sep \o join(sep, Tail(parts))

\* a < b on str: lexicographic by code point.
RECURSIVE StrLess(_, _)
StrLess(a, b) ==
    IF Len(b) = 0 THEN FALSE
    ELSE IF Len(a) = 0 THEN TRUE
    ELSE IF ord(a[1]) # ord(b[1]) THEN ord(a[1]) < ord(b[1])
    ELSE StrLess(Tail(a), Tail(b))

\* sorted(S) of a set of str.
RECURSIVE sorted(_)
sorted(S) ==
    IF S = {} THEN << >>
    ELSE LET m == CHOOSE x \in S : \A y \in S \ {x} : StrLess(x, y)
         IN  <<m>> \o sorted(S \ {m})

Range(seq) == {seq[i] : i \in 1..Len(seq)}

(***************************************************************************)
(* Skill Matcher.                                                          *)
(***************************************************************************)
DEFAULT_SKILLS == <<
    <<"p", "y", "t", "h", "o", "n">>, <<"j", "a", "v", "a">>, <<"c", "+", "+">>, <<"c", "#">>,
            <<"j", "a", "v", "a", "s", "c", "r", "i", "p", "t">>, <<"s", "q", "l">>,
    <<"h", "t", "m", "l">>, <<"c", "s", "s">>, <<"r", "e", "a", "c", "t">>, <<"n", "o", "d", "e">>,
            <<"d", "j", "a", "n", "g", "o">>, <<"f", "l", "a", "s", "k">>,
    <<"f", "a", "s", "t", "a", "p", "i">>, <<"a", "w", "s">>, <<"d", "o", "c", "k", "e", "r">>,
            <<"m", "a", "c", "h", "i", "n", "e", " ", "l", "e", "a", "r", "n", "i", "n", "g">>,
    <<"d", "a", "t", "a", " ", "s", "c", "i", "e", "n", "c", "e">>, <<"e", "x", "c", "e", "l">>,
            <<"c", "o", "m", "m", "u", "n", "i", "c", "a", "t", "i", "o", "n">>, <<"t", "e", "a",
            "m", "w", "o", "r", "k">>,
    <<"l", "e", "a", "d", "e", "r", "s", "h", "i", "p">> >>

\* r"\\b" + re.escape(s) + r"\\b".  The raw literal r"\\b" holds two
\* backslashes and a b, which as a pattern is an escaped backslash followed
\* by the letter b; re.escape makes every character of s literal.  The
\* pattern therefore matches exactly the text \b<s>\b.
SkillPattern(s) == <<"\\", "b">> \o s \o <<"\\", "b">>

\* re.search of a pattern of literals only.
re_search_literal(pattern, text) == Contains(text, pattern)

extract_skills(text) ==
    LET t == lower(text)
    IN  sorted({s \in Range(DEFAULT_SKILLS) : re_search_literal(SkillPattern(s), t)})

(***************************************************************************)
(* Heuristic checks.                                                       *)
(***************************************************************************)
AtsSymbols == <<"U+2605", "U+2713", "U+2714">>

ats_check(text) ==
    (IF Contains(text, <<"|">>) THEN <<"Tables detected">> ELSE << >>)
    \o (IF \E i \in 1..Len(AtsSymbols) : Contains(text, <<AtsSymbols[i]>>)
        THEN <<"Special symbols detected">> ELSE << >>)

sections == << <<"e", "d", "u", "c", "a", "t", "i", "o", "n">>, <<"s", "k", "i", "l", "l", "s">>,
        <<"e", "x", "p", "e", "r", "i", "e", "n", "c", "e">>, <<"p", "r", "o", "j", "e", "c", "t",
        "s">> >>

\* [s for s in names if s not in t]
RECURSIVE NotIn(_, _)
NotIn(names, t) ==
    IF Len(names) = 0 THEN << >>
    ELSE (IF ~Contains(t, names[1]) THEN <<names[1]>> ELSE << >>)
         \o NotIn(Tail(names), t)

\* Mutant of section_check: the text is not lower-cased.
section_check_case_sensitive(text) == NotIn(sections, text)

\* text.lower() gives the same str for every s.
section_check(text) == NotIn(sections, lower(text))

\* Mutant of career_level: "year" is tested first.
career_level_year_first(text) ==
    LET t == lower(text)
    IN  IF Contains(t, <<"y", "e", "a", "r">>) THEN "Experienced"
        ELSE IF Contains(t, <<"i", "n", "t", "e", "r", "n">>) \/ Contains(t, <<"s", "t", "u", "d",
                "e", "n", "t">>)
        THEN "Student / Fresher"
        ELSE "Unknown"

career_level(text) ==
    LET t == lower(text)
    IN  IF Contains(t, <<"i", "n", "t", "e", "r", "n">>) \/ Contains(t, <<"s", "t", "u", "d", "e",
            "n", "t">>)
        THEN "Student / Fresher"
        ELSE IF Contains(t, <<"y", "e", "a", "r">>) THEN "Experienced"
        ELSE "Unknown"

keyword_density(text, keyword) == CountFrom(lower(text), lower(keyword), 1)

(***************************************************************************)
(* What a call yields: a value returned, or an exception raised.           *)
(***************************************************************************)
Return(v) == [kind |-> "return", value |-> v]
Raise(e) == [kind |-> "raise", exc |-> e]

(***************************************************************************)
(* Similarity Scorer.  TfidfVectorizer and cosine_similarity are           *)
(* scikit-learn's; they are modelled by what they compute on two           *)
(* documents with the vectorizer's defaults (lowercase=True,               *)
(* token_pattern=r"(?u)\b\w\w+\b", norm="l2", smooth_idf=True).            *)
(***************************************************************************)
\* The words of scikit-learn's ENGLISH_STOP_WORDS that the documents of the
\* model can hold.
ENGLISH_STOP_WORDS == { <<"t", "h", "e">>, <<"a", "n", "d">>, <<"f", "o", "r">> }

\* re.findall(r"\b\w\w+\b", s) from position i, run being the word characters
\* read since the last character that is none: the maximal runs of two or
\* more word characters.
RECURSIVE TokensFrom(_, _, _)
TokensFrom(s, i, run) ==
    LET done == IF Len(run) >= 2 THEN <<run>> ELSE << >>
    IN  IF i > Len(s) THEN done
        ELSE IF IsWordChar(s[i]) THEN TokensFrom(s, i + 1, Append(run, s[i]))
        ELSE done \o TokensFrom(s, i + 1, << >>)

\* The vectorizer's analyzer: lower-case, tokenize, drop the stop words.
analyze(doc) ==
    LET NotStop(t) == t \notin ENGLISH_STOP_WORDS
    IN  SelectSeq(TokensFrom(lower(doc), 1, << >>), NotStop)

\* Occurrences of term t among the tokens.
tf(t, tokens) == Cardinality({i \in 1..Len(tokens) : tokens[i] = t})

\* idf(t) = ln((1 + n) / (1 + df(t))) + 1 with n = 2 documents: 1 for a term
\* of both documents, ln(3/2) + 1 = 1.405... for a term of one.  In fifths:
\* 5 and 7.
idf5(t, a, b) == IF t \in Range(a) /\ t \in Range(b) THEN 5 ELSE 7

RECURSIVE SumOver(_, _)
SumOver(S, f) ==
    IF S = {} THEN 0
    ELSE LET t == CHOOSE u \in S : TRUE IN f[t] + SumOver(S \ {t}, f)

\* floor(sqrt(n)) by bisection on lo..hi.
RECURSIVE ISqrtIn(_, _, _)
ISqrtIn(n, lo, hi) ==
    IF lo >= hi THEN lo
    ELSE LET mid == (lo + hi + 1) \div 2
         IN  IF mid * mid <= n THEN ISqrtIn(n, mid, hi) ELSE ISqrtIn(n, lo, mid - 1)

isqrt(n) == ISqrtIn(n, 0, 46340)

\* cosine_similarity of the two tf-idf rows, times 100, in steps of
\* 1/ScoreScale rounded down.  A row of zeros (a document of stop words
\* beside one that has terms) has similarity 0.  The idf weight of 7/5 and
\* the integer square root keep the value within half a percent of the
\* float the library computes.
cosine_times_100(a, b) ==
    LET vocab == Range(a) \cup Range(b)
        wa == [t \in vocab |-> tf(t, a) * idf5(t, a, b)]
        wb == [t \in vocab |-> tf(t, b) * idf5(t, a, b)]
        dot == SumOver(vocab, [t \in vocab |-> wa[t] * wb[t]])
        na2 == SumOver(vocab, [t \in vocab |-> wa[t] * wa[t]])
        nb2 == SumOver(vocab, [t \in vocab |-> wb[t] * wb[t]])
    IN  IF dot = 0 THEN 0
        ELSE (dot * 1000 * ScoreScale) \div isqrt(na2 * nb2 * 100)

\* Mutant of falsy: the test "s is None", which no str passes.
falsy_is_none(s) == FALSE

\* not s, of a str
falsy(s) == s = << >>

\* The vectorizer's outcome on the two documents.
vectorize_and_compare(resume_text, jd_text) ==
    LET a == analyze(resume_text)
        b == analyze(jd_text)
    IN  IF Range(a) \cup Range(b) = {}
        THEN \* fit_transform: "empty vocabulary; perhaps the documents
             \* only contain stop words"
             [kind |-> "raise", exc |-> "ValueError", vectorized |-> TRUE]
        ELSE [kind |-> "return", value |-> cosine_times_100(a, b),
              vectorized |-> TRUE]

\* Mutant of compute_match_score: only the resume text is tested.
compute_match_score_resume_only(resume_text, jd_text) ==
    IF falsy(resume_text)
    THEN [kind |-> "return", value |-> 0, vectorized |-> FALSE]
    ELSE vectorize_and_compare(resume_text, jd_text)

\* The result carries whether the vectorizer was run.
compute_match_score(resume_text, jd_text) ==
    IF falsy(resume_text) \/ falsy(jd_text)
    THEN [kind |-> "return", value |-> 0, vectorized |-> FALSE]
    ELSE vectorize_and_compare(resume_text, jd_text)

(***************************************************************************)
(* Text Extractor.  An uploaded file is a stream (closed or not) with a    *)
(* name; format says what its bytes are ("pdf", "docx", "text" for valid   *)
(* UTF-8, "binary" for anything else) and units holds the text of its      *)
(* pages, paragraphs or lines.                                             *)
(***************************************************************************)
None == [kind |-> "None"]

UploadedFile(name, format, units, closed) ==
    [kind |-> "UploadedFile", name |-> name, format |-> format,
     units |-> units, closed |-> closed]

NL == <<"\n">>

\* PyPDF2.PdfReader raises on a closed stream and on bytes that are no PDF;
\* every exception is caught.
extract_text_from_pdf(file_stream) ==
    IF file_stream.closed \/ file_stream.format # "pdf"
    THEN Return(<< >>)
    ELSE Return(join(NL, file_stream.units))

\* The result and the number of temporary files the call leaves behind.
\* NamedTemporaryFile(delete=False) creates the file; leaving the with
\* block closes it and does not delete it; os.unlink is reached only after
\* docx.Document and the join have succeeded.
extract_text_from_docx(file_stream) ==
    IF file_stream.closed
    THEN \* file_stream.read() raises ValueError inside the with block
         [result |-> Return(<< >>), left |-> 1]
    ELSE IF file_stream.format # "docx"
    THEN \* docx.Document(path) raises
         [result |-> Return(<< >>), left |-> 1]
    ELSE [result |-> Return(join(NL, file_stream.units)), left |-> 0]

extract_text(uploaded_file) ==
    IF uploaded_file = None THEN [result |-> Return(<< >>), left |-> 0]
    ELSE LET name == lower(uploaded_file.name)
         IN  IF endswith(name, <<".", "p", "d", "f">>)
             THEN [result |-> extract_text_from_pdf(uploaded_file), left |-> 0]
             ELSE IF endswith(name, <<".", "d", "o", "c", "x">>) \/ endswith(name, <<".", "d", "o",
                     "c">>)
             THEN IF uploaded_file.closed
                  THEN \* uploaded_file.seek(0) raises, outside any try
                       [result |-> Raise("ValueError"), left |-> 0]
                  ELSE extract_text_from_docx(uploaded_file)
             ELSE IF uploaded_file.closed \/ uploaded_file.format # "text"
                  THEN \* getvalue() or decode('utf-8') raises, caught
                       [result |-> Return(<< >>), left |-> 0]
                  ELSE [result |-> Return(join(NL, uploaded_file.units)), left |-> 0]

(***************************************************************************)
(* Report Assembler: the body of "if st.button("Analyze"):".  display is   *)
(* the sequence of st.* calls the body makes.                              *)
(***************************************************************************)
St(fn, args) == [fn |-> fn, args |-> args]

\* Mutant of readiness: the thresholds are inclusive.
readiness_inclusive(score) ==
    IF score >= 70 * ScoreScale THEN "Job Ready"
    ELSE IF score >= 40 * ScoreScale THEN "Partially Ready"
    ELSE "Not Ready"

readiness(score) ==
    IF score > 70 * ScoreScale THEN "Job Ready"
    ELSE IF score > 40 * ScoreScale THEN "Partially Ready"
    ELSE "Not Ready"

\* Mutant of ImprovementPriority: the two writes in the other order.
ImprovementPriority_skills_first(missing_sections, missing_skills) ==
    (IF missing_skills # {}
     THEN <<St("write", <<"2. Add missing skills">>)>> ELSE << >>)
    \o (IF missing_sections # << >>
        THEN <<St("write", <<"1. Add missing sections">>)>> ELSE << >>)

\* The two writes under the "Improvement Priority" subheader.
ImprovementPriority(missing_sections, missing_skills) ==
    (IF missing_sections # << >>
     THEN <<St("write", <<"1. Add missing sections">>)>> ELSE << >>)
    \o (IF missing_skills # {}
        THEN <<St("write", <<"2. Add missing skills">>)>> ELSE << >>)

\* The else branch from st.subheader("Resume Strength Meter") on.  A list
\* made of a set (list(a & b)) has no defined order: the set stands for it.
Report(resume_text, jd_text, score) ==
    LET skills_resume == Range(extract_skills(resume_text))
        skills_jd == Range(extract_skills(jd_text))
        ats_issues == ats_check(resume_text)
        missing_sections == section_check(resume_text)
    IN  << St("subheader", <<"Resume Strength Meter">>),
           St("progress", <<score \div ScoreScale>>),
           St("subheader", <<"Job Readiness">>),
           St("write", <<readiness(score)>>),
           St("subheader", <<"Skill Match Breakdown">>),
           St("write", <<"Matched Skills:", skills_resume \cap skills_jd>>),
           St("write", <<"Missing Skills:", skills_jd \ skills_resume>>),
           St("subheader", <<"ATS Compatibility Check">>),
           St("write", IF ats_issues = << >> THEN <<"ATS Friendly">>
                       ELSE <<"Issues:", ats_issues>>),
           St("subheader", <<"Section Completeness">>),
           St("write", <<IF missing_sections # << >> THEN "Missing Sections:"
                         ELSE "All sections present", missing_sections>>),
           St("subheader", <<"Career Level Detection">>),
           St("write", <<career_level(resume_text)>>),
           St("subheader", <<"Keyword Density Insight">>),
           St("write", <<"Python keyword count:",
                         keyword_density(resume_text, <<"p", "y", "t", "h", "o", "n">>)>>),
           St("subheader", <<"Improvement Priority">>) >>
        \o ImprovementPriority(missing_sections, skills_jd \ skills_resume)
        \o << St("success", <<"Analysis completed successfully">>) >>

Unset == [kind |-> "unset"]
Value(v) == [kind |-> "value", value |-> v]

\* An exception that leaves the script ends the run; Streamlit shows it.
Uncaught(exc) == << St("exception", <<exc>>) >>

\* One run of the handler: the script's resume_text and score, what it
\* displays, and the temporary files it leaves behind.
AnalyzeHandler(uploaded_resume, jd_text) ==
    LET x == extract_text(uploaded_resume)
    IN  IF x.result.kind = "raise"
        THEN [resume_text |-> Unset, score |-> Unset,
              display |-> Uncaught(x.result.exc), left |-> x.left]
        ELSE IF falsy(x.result.value)
        THEN [resume_text |-> Value(x.result.value), score |-> Unset,
              display |-> << St("warning", <<"Unable to read resume">>) >>,
              left |-> x.left]
        ELSE LET score == compute_match_score(x.result.value, jd_text)
             IN  IF score.kind = "raise"
                 THEN [resume_text |-> Value(x.result.value), score |-> Unset,
                       display |-> Uncaught(score.exc), left |-> x.left]
                 ELSE [resume_text |-> Value(x.result.value),
                       score |-> Value(score.value),
                       display |-> Report(x.result.value, jd_text, score.value),
                       left |-> x.left]

(***************************************************************************)
(* Inputs.                                                                 *)
(***************************************************************************)
\* Sequences of at most n elements of S.
SeqsUpTo(S, n) == UNION {[1..k -> S] : k \in 0..n}

\* Text units of the documents handed to the utilities.
Phrases == {
    <<"S", "k", "i", "l", "l", "s", ":", " ", "P", "y", "t", "h", "o", "n", ",", " ", "S", "Q",
            "L", ".">>,
    <<"E", "d", "u", "c", "a", "t", "i", "o", "n", ":", " ", "B", "S", " ", "C", "S", ".">>,
    <<"E", "x", "p", "e", "r", "i", "e", "n", "c", "e", ":", " ", "2", " ", "y", "e", "a", "r",
            "s", ".">>,
    <<"P", "R", "O", "J", "E", "C", "T", "S", " ", "|", " ", "U+2605", " ", "c", "+", "+">>,
    <<"I", "n", "t", "e", "r", "n">>,
    <<"t", "h", "e", " ", "a", "n", "d">>,
    <<"\\", "b", "s", "q", "l", "\\", "b", " ", "\\", "b", "c", "+", "+", "\\", "b">>,
    <<"J", "a", "v", "a", "S", "c", "r", "i", "p", "t">>,
    << >> }

Texts == {join(NL, u) : u \in SeqsUpTo(Phrases, MaxUnits)}

\* The job descriptions pasted in the text area, besides the empty one.
JdPhrases == {
    <<"L", "o", "o", "k", "i", "n", "g", " ", "f", "o", "r", " ", "P", "y", "t", "h", "o", "n",
            " ", "a", "n", "d", " ", "S", "Q", "L", " ", "d", "e", "v", "e", "l", "o", "p", "e",
            "r", ".">>,
    <<"t", "h", "e">>,
    <<"\\", "b", "s", "q", "l", "\\", "b", " ", "\\", "b", "d", "o", "c", "k", "e", "r", "\\",
            "b">> }

JdTexts == JdPhrases \cup {<< >>}

\* Text units of the resumes uploaded through the form.
UploadPhrases == {
    <<"S", "k", "i", "l", "l", "s", ":", " ", "P", "y", "t", "h", "o", "n", ",", " ", "S", "Q",
            "L", ".", " ", "E", "d", "u", "c", "a", "t", "i", "o", "n", ":", " ", "B", "S", " ",
            "C", "S", ".">>,
    <<"E", "x", "p", "e", "r", "i", "e", "n", "c", "e", ":", " ", "2", " ", "y", "e", "a", "r",
            "s", ".", " ", "P", "r", "o", "j", "e", "c", "t", "s", " ", "|", " ", "\\", "b", "s",
            "q", "l", "\\", "b">>,
    <<"I", "n", "t", "e", "r", "n">>,
    <<"t", "h", "e", " ", "a", "n", "d">> }

\* st.file_uploader(type=['pdf', 'docx']) lets through these suffixes only;
\* the bytes are what the suffix says or not, and the stream is open.
Uploads ==
    {UploadedFile(<<"c", "v", ".", "p", "d", "f">>, f, u, FALSE) :
        f \in {"pdf", "binary"}, u \in SeqsUpTo(UploadPhrases, MaxUnits)}
    \cup {UploadedFile(<<"C", "V", ".", "D", "O", "C", "X">>, f, u, FALSE) :
        f \in {"docx", "binary"}, u \in SeqsUpTo(UploadPhrases, MaxUnits)}

\* The documents handed to extract_text directly: any suffix, bytes that
\* are what the suffix says or not, the stream open or closed.
FileNames == { <<"a", ".", "p", "d", "f">>, <<"A", ".", "P", "D", "F">>, <<"a", ".", "d", "o", "c",
        "x">>, <<"a", ".", "d", "o", "c">>, <<"a", ".", "t", "x", "t">> }

FormatOf(name) ==
    IF endswith(lower(name), <<".", "p", "d", "f">>) THEN "pdf"
    ELSE IF endswith(lower(name), <<".", "t", "x", "t">>) THEN "text"
    ELSE "docx"

Documents ==
    UNION {{UploadedFile(n, f, u, c) :
                f \in {FormatOf(n), "binary"},
                u \in SeqsUpTo(Phrases, MaxUnits), c \in BOOLEAN} :
           n \in FileNames}

(***************************************************************************)
(* State.                                                                  *)
(***************************************************************************)
VARIABLES
    uploaded_resume,  \* st.file_uploader's value: None or the uploaded file
    jd_text,          \* st.text_area's value
    resume_text,      \* the script's resume_text in the last run, or Unset
    score,            \* the script's score in the last run, or Unset
    display,          \* the st.* calls of the handler in the last run
    tempfiles,        \* temporary files on the file system
    call              \* the last direct call of a utility and what it gave

vars == <<uploaded_resume, jd_text, resume_text, score, display, tempfiles, call>>

NoCall == [fn |-> "none", args |-> << >>, ret |-> Unset]

Init ==
    /\ uploaded_resume = None
    /\ jd_text = << >>
    /\ resume_text = Unset
    /\ score = Unset
    /\ display = << >>
    /\ tempfiles = 0
    /\ call = NoCall

(***************************************************************************)
(* The Streamlit script.  Every interaction reruns it from the top; the    *)
(* button is True only in the run its click starts.                        *)
(***************************************************************************)
\* A rerun in which st.button("Analyze") is False.
Rerun ==
    /\ resume_text' = Unset
    /\ score' = Unset
    /\ display' = << >>

\* The uploader holds one file: a new one comes after the old one is removed.
Upload(f) ==
    /\ uploaded_resume = None
    /\ uploaded_resume' = f
    /\ Rerun
    /\ UNCHANGED <<jd_text, tempfiles, call>>

RemoveUpload ==
    /\ uploaded_resume # None
    /\ uploaded_resume' = None
    /\ Rerun
    /\ UNCHANGED <<jd_text, tempfiles, call>>

PasteJd(t) ==
    /\ jd_text # t
    /\ jd_text' = t
    /\ Rerun
    /\ UNCHANGED <<uploaded_resume, tempfiles, call>>

ClickAnalyze ==
    \E run \in {AnalyzeHandler(uploaded_resume, jd_text)} :
        /\ tempfiles + run.left <= MaxTempFiles
        /\ resume_text' = run.resume_text
        /\ score' = run.score
        /\ display' = run.display
        /\ tempfiles' = tempfiles + run.left
        /\ UNCHANGED <<uploaded_resume, jd_text, call>>

Next ==
    \/ \E f \in Uploads : Upload(f)
    \/ RemoveUpload
    \/ \E t \in JdTexts : PasteJd(t)
    \/ ClickAnalyze

Spec == Init /\ [][Next]_vars

(***************************************************************************)
(* The utilities called directly: the initial state holds the call and     *)
(* its arguments, the action makes it.                                     *)
(***************************************************************************)
Called(fn, args, ret) == [fn |-> fn, args |-> args, ret |-> ret]

Calls ==
    {Called("extract_skills", <<t>>, Unset) : t \in Texts \cup JdTexts}
    \cup {Called("section_check", <<t>>, Unset) : t \in Texts}
    \cup {Called("career_level", <<t>>, Unset) : t \in Texts}
    \cup {Called("compute_match_score", <<r, j>>, Unset) : r \in Texts, j \in JdTexts}
    \cup {Called("compute_match_score", <<r, r>>, Unset) : r \in Texts}
    \cup {Called("extract_text", <<f>>, Unset) : f \in Documents \cup {None}}
    \cup {Called("readiness", <<s>>, Unset) : s \in 0..(100 * ScoreScale)}

InitFn ==
    /\ uploaded_resume = None
    /\ jd_text = << >>
    /\ resume_text = Unset
    /\ score = Unset
    /\ display = << >>
    /\ tempfiles = 0
    /\ call \in Calls

Pending(fn) == call.fn = fn /\ call.ret = Unset

app == <<uploaded_resume, jd_text, resume_text, score, display>>

CallExtractSkills ==
    /\ Pending("extract_skills")
    /\ call' = [call EXCEPT !.ret = Value(extract_skills(call.args[1]))]
    /\ UNCHANGED <<app, tempfiles>>

CallSectionCheck ==
    /\ Pending("section_check")
    /\ call' = [call EXCEPT !.ret = Value(section_check(call.args[1]))]
    /\ UNCHANGED <<app, tempfiles>>

CallCareerLevel ==
    /\ Pending("career_level")
    /\ call' = [call EXCEPT !.ret = Value(career_level(call.args[1]))]
    /\ UNCHANGED <<app, tempfiles>>

CallComputeMatchScore ==
    /\ Pending("compute_match_score")
    /\ call' = [call EXCEPT !.ret = compute_match_score(call.args[1], call.args[2])]
    /\ UNCHANGED <<app, tempfiles>>

CallExtractText ==
    /\ Pending("extract_text")
    /\ LET x == extract_text(call.args[1])
       IN  /\ call' = [call EXCEPT !.ret = x.result]
           /\ tempfiles' = tempfiles + x.left
    /\ UNCHANGED app

\* The readiness expression of the handler.
CallReadiness ==
    /\ Pending("readiness")
    /\ call' = [call EXCEPT !.ret = Value(readiness(call.args[1]))]
    /\ UNCHANGED <<app, tempfiles>>

NextFn ==
    \/ CallExtractSkills
    \/ CallSectionCheck
    \/ CallCareerLevel
    \/ CallComputeMatchScore
    \/ CallExtractText
    \/ CallReadiness

SpecFn == InitFn /\ [][NextFn]_vars

(***************************************************************************)
(* Properties.                                                             *)
(***************************************************************************)
Done(fn) == call.fn = fn /\ call.ret # Unset

\* term occurs in t with no word character right before or right after it.
OccursAsWholeWord(term, t) ==
    \E i \in 0..(Len(t) - Len(term)) :
        /\ \A k \in 1..Len(term) : t[i + k] = term[k]
        /\ i = 0 \/ ~IsWordChar(t[i])
        /\ i + Len(term) = Len(t) \/ ~IsWordChar(t[i + Len(term) + 1])

StrictlyAscending(seq) ==
    \A i \in 1..Len(seq) : \A j \in 1..Len(seq) : i < j => StrLess(seq[i], seq[j])

\* C1: extract_skills returns exactly the terms of DEFAULT_SKILLS that occur
\* in the text as a whole word, case-insensitively, as a sorted sequence
\* with no duplicates.
C1_ExtractSkillsWholeWords ==
    Done("extract_skills") =>
        LET t == lower(call.args[1])
            r == call.ret.value
        IN  /\ Range(r) = {s \in Range(DEFAULT_SKILLS) : OccursAsWholeWord(s, t)}
            /\ StrictlyAscending(r)

\* C2: no temporary file made by extract_text_from_docx outlives the call,
\* whether the parse succeeded or failed: after any sequence of analyses no
\* temporary file is left.
C2_NoTempFileLeft == tempfiles = 0

\* Every token of the text is a stop word (and there is at least one).
OnlyStopWords(text) ==
    LET toks == TokensFrom(lower(text), 1, << >>)
    IN  /\ toks # << >>
        /\ \A i \in 1..Len(toks) : toks[i] \in ENGLISH_STOP_WORDS

\* C3: compute_match_score never raises, and returns 0 when a non-empty text
\* is made of stop words only.
C3_ScoreNeverRaises ==
    Done("compute_match_score") =>
        /\ call.ret.kind = "return"
        /\ (OnlyStopWords(call.args[1]) \/ OnlyStopWords(call.args[2]))
               => call.ret.value = 0

\* The stream cannot be read, or its bytes are not what the suffix of its
\* name makes extract_text parse them as.
ExtractionFails(f) == f.closed \/ f.format # FormatOf(f.name)

\* C4: extract_text never raises: a failure of seeking, reading, parsing or
\* decoding gives the empty string, and so does no document at all.
C4_ExtractTextNeverRaises ==
    Done("extract_text") =>
        LET f == call.args[1]
        IN  /\ call.ret.kind = "return"
            /\ f = None => call.ret.value = << >>
            /\ (f # None /\ ExtractionFails(f)) => call.ret.value = << >>

Warning == St("warning", <<"Unable to read resume">>)

\* C5: with an empty resume text the handler reports one warning and nothing
\* else (no score is computed, nothing of the report is shown, no success
\* message); with a non-empty resume text it shows no warning.
C5_EmptyResumeHalts ==
    /\ resume_text = Value(<< >>) => (display = <<Warning>> /\ score = Unset)
    /\ (resume_text # Unset /\ resume_text # Value(<< >>)) =>
           \A i \in 1..Len(display) : display[i].fn # "warning"

\* A corrupt upload was analysed: the one warning is on display.
C5_Witness ==
    /\ uploaded_resume # None
    /\ resume_text = Value(<< >>)
    /\ display = <<Warning>>

\* C6: "Job Ready" iff score > 70, "Partially Ready" iff 40 < score <= 70,
\* "Not Ready" iff score <= 40; 70 itself is "Partially Ready", 40 itself
\* "Not Ready", and the next score above 70 "Job Ready".
C6_ReadinessThresholds ==
    Done("readiness") =>
        LET s == call.args[1]
            r == call.ret.value
        IN  /\ r = "Job Ready" <=> s > 70 * ScoreScale
            /\ r = "Partially Ready" <=> (40 * ScoreScale < s /\ s <= 70 * ScoreScale)
            /\ r = "Not Ready" <=> s <= 40 * ScoreScale
            /\ s = 70 * ScoreScale => r = "Partially Ready"
            /\ s = 70 * ScoreScale + 1 => r = "Job Ready"
            /\ s = 40 * ScoreScale => r = "Not Ready"

\* The score of exactly 70 was labelled.
C6_Witness ==
    /\ Done("readiness")
    /\ call.args[1] = 70 * ScoreScale
    /\ call.ret.value = "Partially Ready"

\* The report was shown in full.
Reported ==
    /\ display # << >>
    /\ display[Len(display)].fn = "success"

\* The writes between the "Improvement Priority" subheader and the success
\* message.
PriorityList ==
    LET h == CHOOSE i \in 1..Len(display) :
                 /\ display[i].fn = "subheader"
                 /\ display[i].args[1] = "Improvement Priority"
    IN  SubSeq(display, h + 1, Len(display) - 1)

AddSections == St("write", <<"1. Add missing sections">>)
AddSkills == St("write", <<"2. Add missing skills">>)

SomeSectionMissing ==
    \E i \in 1..Len(sections) : ~Contains(lower(resume_text.value), sections[i])

SomeSkillMissing ==
    Range(extract_skills(jd_text)) \ Range(extract_skills(resume_text.value)) # {}

C8_CareerLevel ==
    Done("career_level") =>
        LET t == lower(call.args[1])
            junior == Contains(t, <<"i", "n", "t", "e", "r", "n">>) \/ Contains(t, <<"s", "t", "u",
                    "d", "e", "n", "t">>)
            years == Contains(t, <<"y", "e", "a", "r">>)
            r == call.ret.value
        IN  /\ junior => r = "Student / Fresher"
            /\ (years /\ ~junior) => r = "Experienced"
            /\ (~years /\ ~junior) => r = "Unknown"
            /\ r \in {"Student / Fresher", "Experienced", "Unknown"}

\* A text with "intern" and "years" was classified.
C8_Witness ==
    /\ Done("career_level")
    /\ Contains(lower(call.args[1]), <<"i", "n", "t", "e", "r", "n">>)
    /\ Contains(lower(call.args[1]), <<"y", "e", "a", "r", "s">>)
    /\ call.ret.value = "Student / Fresher"

\* Position of a name in the canonical order of the sections.
SectionIndex(name) == CHOOSE i \in 1..Len(sections) : sections[i] = name

\* C9: section_check returns the required section names that are no
\* case-insensitive substring of the text, in the canonical order, each once;
\* a text with only "Education" and "Skills" gives experience, projects.
C9_SectionCheck ==
    Done("section_check") =>
        LET t == lower(call.args[1])
            r == call.ret.value
        IN  /\ Range(r) = {s \in Range(sections) : ~Contains(t, s)}
            /\ \A i \in 1..Len(r) : \A j \in 1..Len(r) :
                   i < j => SectionIndex(r[i]) < SectionIndex(r[j])
            /\ Range(r) = { <<"e", "x", "p", "e", "r", "i", "e", "n", "c", "e">>, <<"p", "r", "o",
                    "j", "e", "c", "t", "s">> }
                   => r = << <<"e", "x", "p", "e", "r", "i", "e", "n", "c", "e">>, <<"p", "r", "o",
                           "j", "e", "c", "t", "s">> >>

\* A text with "Education" and "Skills" in capitals and no other section.
C9_Witness ==
    /\ Done("section_check")
    /\ Contains(call.args[1], <<"E", "d", "u", "c", "a", "t", "i", "o", "n">>)
    /\ Contains(call.args[1], <<"S", "k", "i", "l", "l", "s">>)
    /\ call.ret.value = << <<"e", "x", "p", "e", "r", "i", "e", "n", "c", "e">>, <<"p", "r", "o",
            "j", "e", "c", "t", "s">> >>

\* C10: compute_match_score returns 0.0 without running the vectorizer
\* whenever the resume text or the job description is the empty string.
C10_EmptyTextScoresZero ==
    (Done("compute_match_score")
     /\ (call.args[1] = << >> \/ call.args[2] = << >>)) =>
        /\ call.ret.kind = "return"
        /\ call.ret.value = 0
        /\ ~call.ret.vectorized

\* A resume of stop words was scored against the empty job description.
C10_Witness ==
    /\ Done("compute_match_score")
    /\ call.args[1] = <<"t", "h", "e", " ", "a", "n", "d">>
    /\ call.args[2] = << >>
    /\ call.ret.value = 0

====
